---- MODULE Spec2Model ----
(***************************************************************************)
(* A model of src/reactive.js: class Component, a tree node that owns a    *)
(* mutable state, runs the update protocol of setState (shallow merge,     *)
(* shouldComponentUpdate gate, componentWillUpdate / render /              *)
(* componentDidUpdate, commit, callback) and keeps a list of children      *)
(* deduplicated by key.                                                    *)
(*                                                                         *)
(* One Component, "this", is the node under study.  The other Components   *)
(* of the model (Comps) are the ones handed to its constructor, addChild,  *)
(* addChildren and removeChild.  Every method is one action: the class has *)
(* no asynchrony, a call runs to completion before the next one starts.    *)
(* The polymorphic hooks (shouldComponentUpdate, componentWillUpdate,      *)
(* render, componentDidUpdate, the setState callback) are supplied by a    *)
(* subclass or the caller; the model records each invocation, with its     *)
(* arguments and the value of this._state at that moment, in `calls`, and  *)
(* draws the gate's answer from BOOLEAN.                                   *)
(***************************************************************************)
EXTENDS Integers, Sequences, FiniteSets

\* ------------------------------------------------------------------ bounds

\* At most MaxCalls state updates (setState, state setter) in one behaviour.
MaxCalls == 2
\* The Components other than "this" are 1..NumComps.
NumComps == 3
\* The constructor's children argument has at most MaxInitLen entries.
MaxInitLen == 2
\* addChildren's argument has at most MaxBatch entries.
MaxBatch == 2

\* ------------------------------------------------------------- JS values

\* An object argument or field holding the own properties `m`.
JSObject(m) == [absent |-> FALSE, map |-> m]

\* null / undefined where an object is expected.
JSNull == [absent |-> TRUE, map |-> <<>>]

StateKeys == {"x", "y"}
Vals == {1, 2}

\* The plain objects over StateKeys: every partial map StateKeys -> Vals.
Maps == UNION {[D -> Vals] : D \in SUBSET StateKeys}

\* What a caller may pass as setState's nextState.
NextStates == {JSObject(m) : m \in Maps} \cup {JSNull}

\* The props objects a node may be constructed with ({} is the default).
PropsDomain == {JSObject(<<>>), JSObject([title |-> 1])}

\* The keys a node may be constructed with ('' is the default).
NodeKeys == {"", "n"}

\* Object.assign(target, source): copies source's own properties over
\* target's; a null or undefined source is skipped.
ObjectAssign(target, source) ==
  IF source.absent THEN target
  ELSE JSObject([k \in (DOMAIN target.map) \cup (DOMAIN source.map) |->
                   IF k \in DOMAIN source.map THEN source.map[k]
                   ELSE target.map[k]])

\* -------------------------------------------------------------- components

Comps == 1..NumComps

\* A null / undefined entry or argument where a Component is expected.
NULL == 0

\* The _key each Component of Comps was constructed with; '' is the
\* constructor's default.  Components 1 and 2 share a key.
KeyTable == <<"a", "a", "", "b">>
CompKey(c) == KeyTable[((c - 1) % Len(KeyTable)) + 1]

\* The value of the expression `v.key`.
StringValue(s) == [undef |-> FALSE, s |-> s]
Undefined == [undef |-> TRUE, s |-> ""]

\* get key() of a Component.
ComponentKey(c) == StringValue(CompKey(c))

\* `.key` of a string primitive: strings have no such property.
StringKey(s) == Undefined

\* _parent of a Component: never assigned by the constructor, `this` once
\* the node under study has assigned itself through the setter.
NoParent == "undefined"
This == "this"

\* set parent(parent)
SetParent(par, c, p) == [par EXCEPT ![c] = p]

\* What a caller may pass as removeChild's argument.
NullArg == [t |-> "null", s |-> "", c |-> NULL]
StringArg(s) == [t |-> "string", s |-> s, c |-> NULL]
ComponentArg(c) == [t |-> "component", s |-> "", c |-> c]
RemoveArgs ==
  {NullArg} \cup {StringArg(s) : s \in {KeyTable[i] : i \in DOMAIN KeyTable} \cup {"zz"}}
            \cup {ComponentArg(c) : c \in Comps}

\* All sequences over S of length at most n.
SeqsUpTo(S, n) == UNION {[1..k -> S] : k \in 0..n}

\* ------------------------------------------------------------------- state

VARIABLES
  key,       \* this._key
  props,     \* this._props
  state,     \* this._state
  children,  \* this._children: a sequence over Comps and NULL
  parent,    \* c._parent for each c in Comps
  op,        \* the last method called on the node, with its arguments
  calls,     \* the hook invocations that call made, in order
  supplied,  \* history: the nextState of every state update so far
  threw      \* whether the last call ended by raising an exception

vars == <<key, props, state, children, parent, op, calls, supplied, threw>>

\* One invocation of a hook: its name, its arguments, and this._state as
\* the hook would read it.
Call(fn, args, seen) == [fn |-> fn, args |-> args, seen |-> seen]

\* The node as the methods see it.
Self == [key |-> key, props |-> props, state |-> state, children |-> children]

\* constructor(key='', props={}, children=[])
Constructor(k, p, ch) == [key |-> k, props |-> p, state |-> JSObject(<<>>), children |-> ch]

\* ----------------------------------------------------------------- methods

\* Array.prototype.findIndex: the (0-based) index of the first entry that
\* passes the test, -1 when none does.  `passes` is the test's answer for
\* each entry of the array, in order.
findIndex(passes) ==
  LET hits == {i \in 1..Len(passes) : passes[i]}
  IN  IF hits = {} THEN -1
      ELSE (CHOOSE i \in hits : \A j \in hits : i <= j) - 1

\* Array.prototype.splice(IDX, 1): the array without its entry at IDX.
splice(arr, IDX) == SubSeq(arr, 1, IDX) \o SubSeq(arr, IDX + 2, Len(arr))

\* forceUpdate with the forced flag dropped: this.render().
forceUpdateUnforced(self) ==
  [self |-> self, calls |-> <<Call("render", <<FALSE>>, self.state)>>]

\* forceUpdate() { this.render(true); }
\* Component defines no render: the subclass supplies it, and the model
\* takes it to exist and to return.
forceUpdate(self) ==
  [self |-> self, calls |-> <<Call("render", <<TRUE>>, self.state)>>]

\* setState with the commit moved inside the `if`: a vetoed update is lost.
setStateCommitInsideGate(self, nextState, gate, cb) ==
  LET PREV_STATE == self.state
      NEW_STATE == ObjectAssign(ObjectAssign(JSObject(<<>>), PREV_STATE), nextState)
      asked == <<Call("shouldComponentUpdate", <<self.props, NEW_STATE>>, self.state)>>
      updated ==
        IF gate
        THEN asked \o <<Call("componentWillUpdate", <<self.props, NEW_STATE>>, self.state),
                        Call("render", <<TRUE>>, self.state),
                        Call("componentDidUpdate", <<self.props, PREV_STATE>>, self.state)>>
        ELSE asked
      committed == IF gate THEN [self EXCEPT !.state = NEW_STATE] ELSE self
  IN  [self |-> committed,
       calls |-> IF cb
                 THEN updated \o <<Call("cb", <<PREV_STATE, committed.props>>, committed.state)>>
                 ELSE updated]

\* setState with render moved out of the `if`: it runs on a vetoed update too.
setStateRenderOutsideGate(self, nextState, gate, cb) ==
  LET PREV_STATE == self.state
      NEW_STATE == ObjectAssign(ObjectAssign(JSObject(<<>>), PREV_STATE), nextState)
      asked == <<Call("shouldComponentUpdate", <<self.props, NEW_STATE>>, self.state)>>
      updated ==
        IF gate
        THEN asked \o <<Call("componentWillUpdate", <<self.props, NEW_STATE>>, self.state),
                        Call("render", <<TRUE>>, self.state),
                        Call("componentDidUpdate", <<self.props, PREV_STATE>>, self.state)>>
        ELSE asked \o <<Call("render", <<TRUE>>, self.state)>>
      committed == [self EXCEPT !.state = NEW_STATE]
  IN  [self |-> committed,
       calls |-> IF cb
                 THEN updated \o <<Call("cb", <<PREV_STATE, committed.props>>, committed.state)>>
                 ELSE updated]

\* setState with render and componentDidUpdate in the wrong order.
setStateRenderAfterDidUpdate(self, nextState, gate, cb) ==
  LET PREV_STATE == self.state
      NEW_STATE == ObjectAssign(ObjectAssign(JSObject(<<>>), PREV_STATE), nextState)
      asked == <<Call("shouldComponentUpdate", <<self.props, NEW_STATE>>, self.state)>>
      updated ==
        IF gate
        THEN asked \o <<Call("componentWillUpdate", <<self.props, NEW_STATE>>, self.state),
                        Call("componentDidUpdate", <<self.props, PREV_STATE>>, self.state),
                        Call("render", <<TRUE>>, self.state)>>
        ELSE asked
      committed == [self EXCEPT !.state = NEW_STATE]
  IN  [self |-> committed,
       calls |-> IF cb
                 THEN updated \o <<Call("cb", <<PREV_STATE, committed.props>>, committed.state)>>
                 ELSE updated]

\* setState with the callback invoked before the commit of line 83.
setStateCallbackBeforeCommit(self, nextState, gate, cb) ==
  LET PREV_STATE == self.state
      NEW_STATE == ObjectAssign(ObjectAssign(JSObject(<<>>), PREV_STATE), nextState)
      asked == <<Call("shouldComponentUpdate", <<self.props, NEW_STATE>>, self.state)>>
      updated ==
        IF gate
        THEN asked \o <<Call("componentWillUpdate", <<self.props, NEW_STATE>>, self.state),
                        Call("render", <<TRUE>>, self.state),
                        Call("componentDidUpdate", <<self.props, PREV_STATE>>, self.state)>>
        ELSE asked
      committed == [self EXCEPT !.state = NEW_STATE]
  IN  [self |-> committed,
       calls |-> IF cb
                 THEN updated \o <<Call("cb", <<PREV_STATE, self.props>>, self.state)>>
                 ELSE updated]

\* setState with the commit moved before the `if`: the hooks read the new
\* state from the node.
setStateCommitBeforeHooks(self, nextState, gate, cb) ==
  LET PREV_STATE == self.state
      NEW_STATE == ObjectAssign(ObjectAssign(JSObject(<<>>), PREV_STATE), nextState)
      committed == [self EXCEPT !.state = NEW_STATE]
      asked == <<Call("shouldComponentUpdate", <<self.props, NEW_STATE>>, committed.state)>>
      updated ==
        IF gate
        THEN asked \o <<Call("componentWillUpdate", <<self.props, NEW_STATE>>, committed.state),
                        Call("render", <<TRUE>>, committed.state),
                        Call("componentDidUpdate", <<self.props, PREV_STATE>>, committed.state)>>
        ELSE asked
  IN  [self |-> committed,
       calls |-> IF cb
                 THEN updated \o <<Call("cb", <<PREV_STATE, committed.props>>, committed.state)>>
                 ELSE updated]

\* setState(nextState, cb).  `gate` is what shouldComponentUpdate returns
\* for this call, `cb` whether a callback was passed.
setState(self, nextState, gate, cb) ==
  LET PREV_STATE == self.state
      NEW_STATE == ObjectAssign(ObjectAssign(JSObject(<<>>), PREV_STATE), nextState)
      asked == <<Call("shouldComponentUpdate", <<self.props, NEW_STATE>>, self.state)>>
      updated ==
        IF gate
        THEN asked \o <<Call("componentWillUpdate", <<self.props, NEW_STATE>>, self.state),
                        Call("render", <<TRUE>>, self.state),
                        Call("componentDidUpdate", <<self.props, PREV_STATE>>, self.state)>>
        ELSE asked
      committed == [self EXCEPT !.state = NEW_STATE]
  IN  [self |-> committed,
       calls |-> IF cb
                 THEN updated \o <<Call("cb", <<PREV_STATE, committed.props>>, committed.state)>>
                 ELSE updated]

\* The hooks in whose body a subclass or caller may call setState again.
ReentryPoints == {"componentWillUpdate", "render", "componentDidUpdate", "cb"}

\* The setState calls a hook may make: nextState and the gate's answer for
\* that call; no callback is passed and its own hooks call nothing.
InnerCalls == [nextState : NextStates, gate : BOOLEAN]

\* One hook invocation of a setState call in progress.  `acc` is the node
\* and the invocations so far; when `reenter`, the hook's body calls
\* this.setState(inner.nextState), which runs to completion on the node as
\* it is at that moment before the hook returns.
Hook(acc, fn, args, reenter, inner) ==
  LET logged == Append(acc.calls, Call(fn, args, acc.self.state))
  IN  IF reenter
      THEN LET r == setState(acc.self, inner.nextState, inner.gate, FALSE)
           IN  [self |-> r.self, calls |-> logged \o r.calls]
      ELSE [self |-> acc.self, calls |-> logged]

\* setState re-entered, with line 83 reading the node again:
\* this._state = Object.assign({}, this._state, nextState).
setStateReentrantMergeAtCommit(self, nextState, gate, cb, at, inner) ==
  LET PREV_STATE == self.state
      NEW_STATE == ObjectAssign(ObjectAssign(JSObject(<<>>), PREV_STATE), nextState)
      asked == [self |-> self,
                calls |-> <<Call("shouldComponentUpdate", <<self.props, NEW_STATE>>, self.state)>>]
      willed == IF gate
                THEN Hook(asked, "componentWillUpdate", <<self.props, NEW_STATE>>,
                          at = "componentWillUpdate", inner)
                ELSE asked
      rendered == IF gate THEN Hook(willed, "render", <<TRUE>>, at = "render", inner)
                  ELSE willed
      updated == IF gate
                 THEN Hook(rendered, "componentDidUpdate", <<self.props, PREV_STATE>>,
                           at = "componentDidUpdate", inner)
                 ELSE rendered
      committed == [self |-> [updated.self EXCEPT
                                !.state = ObjectAssign(ObjectAssign(JSObject(<<>>), updated.self.state),
                                                       nextState)],
                    calls |-> updated.calls]
  IN  IF cb
      THEN Hook(committed, "cb", <<PREV_STATE, committed.self.props>>, at = "cb", inner)
      ELSE committed

\* setState(nextState, cb) where the body of hook `at` calls
\* this.setState(inner.nextState).  PREV_STATE and NEW_STATE are locals
\* computed on entry (lines 73-76); line 83 assigns NEW_STATE whatever the
\* hooks did to this._state in between.
setStateReentrant(self, nextState, gate, cb, at, inner) ==
  LET PREV_STATE == self.state
      NEW_STATE == ObjectAssign(ObjectAssign(JSObject(<<>>), PREV_STATE), nextState)
      asked == [self |-> self,
                calls |-> <<Call("shouldComponentUpdate", <<self.props, NEW_STATE>>, self.state)>>]
      willed == IF gate
                THEN Hook(asked, "componentWillUpdate", <<self.props, NEW_STATE>>,
                          at = "componentWillUpdate", inner)
                ELSE asked
      rendered == IF gate THEN Hook(willed, "render", <<TRUE>>, at = "render", inner)
                  ELSE willed
      updated == IF gate
                 THEN Hook(rendered, "componentDidUpdate", <<self.props, PREV_STATE>>,
                           at = "componentDidUpdate", inner)
                 ELSE rendered
      committed == [self |-> [updated.self EXCEPT !.state = NEW_STATE],
                    calls |-> updated.calls]
  IN  IF cb
      THEN Hook(committed, "cb", <<PREV_STATE, committed.self.props>>, at = "cb", inner)
      ELSE committed

\* A state setter that assigns the field: this._state = nextState.
stateSetterAssigns(self, nextState, gate) ==
  [self |-> [self EXCEPT !.state = nextState], calls |-> <<>>]

\* set state(nextState) { this.setState(nextState); }
stateSetter(self, nextState, gate) == setState(self, nextState, gate, FALSE)

\* addChild without the duplicate check: every component is pushed.
addChildAlwaysPush(self, par, component) ==
  IF component = NULL THEN [self |-> self, parent |-> par, IDX |-> -1, threw |-> FALSE]
  ELSE [self |-> [self EXCEPT !.children = Append(self.children, component)],
        parent |-> SetParent(par, component, This),
        IDX |-> -1, threw |-> FALSE]

\* addChild without the guard of line 91: with a null component and no
\* child to compare with, null is pushed and `component.parent = this`
\* raises a TypeError.
addChildNoNullCheck(self, par, component) ==
  IF component = NULL
  THEN [self |-> [self EXCEPT !.children = Append(self.children, component)],
        parent |-> par, IDX |-> -1, threw |-> TRUE]
  ELSE
    LET Same(el) == el # NULL /\ ComponentKey(el) = ComponentKey(component)
        IDX == findIndex([i \in 1..Len(self.children) |-> Same(self.children[i])])
    IN  IF IDX = -1
        THEN [self |-> [self EXCEPT !.children = Append(self.children, component)],
              parent |-> SetParent(par, component, This),
              IDX |-> IDX, threw |-> FALSE]
        ELSE [self |-> [self EXCEPT !.children = [self.children EXCEPT ![IDX + 1] = component]],
              parent |-> par,
              IDX |-> IDX, threw |-> FALSE]

\* addChild whose replace branch assigns component.parent too.
addChildAlwaysSetsParent(self, par, component) ==
  IF component = NULL THEN [self |-> self, parent |-> par, IDX |-> -1, threw |-> FALSE]
  ELSE
    LET Same(el) == el # NULL /\ ComponentKey(el) = ComponentKey(component)
        IDX == findIndex([i \in 1..Len(self.children) |-> Same(self.children[i])])
    IN  IF IDX = -1
        THEN [self |-> [self EXCEPT !.children = Append(self.children, component)],
              parent |-> SetParent(par, component, This),
              IDX |-> IDX, threw |-> FALSE]
        ELSE [self |-> [self EXCEPT !.children = [self.children EXCEPT ![IDX + 1] = component]],
              parent |-> SetParent(par, component, This),
              IDX |-> IDX, threw |-> FALSE]

\* addChild(component).  IDX is the code's local of that name (-1 also when
\* the call returned before computing it).  No statement of it can raise:
\* component and el are tested before their key is read.
addChild(self, par, component) ==
  IF component = NULL THEN [self |-> self, parent |-> par, IDX |-> -1, threw |-> FALSE]
  ELSE
    LET Same(el) == el # NULL /\ ComponentKey(el) = ComponentKey(component)
        IDX == findIndex([i \in 1..Len(self.children) |-> Same(self.children[i])])
    IN  IF IDX = -1
        THEN [self |-> [self EXCEPT !.children = Append(self.children, component)],
              parent |-> SetParent(par, component, This),
              IDX |-> IDX, threw |-> FALSE]
        ELSE [self |-> [self EXCEPT !.children = [self.children EXCEPT ![IDX + 1] = component]],
              parent |-> par,
              IDX |-> IDX, threw |-> FALSE]

\* addChildren that walks the array from its last entry to its first.
RECURSIVE addChildrenReversed(_, _, _)
addChildrenReversed(self, par, components) ==
  IF components = <<>> THEN [self |-> self, parent |-> par, threw |-> FALSE]
  ELSE LET r == addChild(self, par, components[Len(components)])
       IN  IF r.threw THEN [self |-> r.self, parent |-> r.parent, threw |-> TRUE]
           ELSE addChildrenReversed(r.self, r.parent,
                                    SubSeq(components, 1, Len(components) - 1))

\* addChildren(components): addChild on each entry, in order.  An exception
\* raised by a call ends the loop.
RECURSIVE addChildren(_, _, _)
addChildren(self, par, components) ==
  IF components = <<>> THEN [self |-> self, parent |-> par, threw |-> FALSE]
  ELSE LET r == addChild(self, par, Head(components))
       IN  IF r.threw THEN [self |-> r.self, parent |-> r.parent, threw |-> TRUE]
           ELSE addChildren(r.self, r.parent, Tail(components))

\* removeChild whose Component branch removes by identity (el === component)
\* instead of calling itself with the key.
removeChildByIdentity(self, component) ==
  IF component.t = "null" \/ (component.t = "string" /\ component.s = "")
  THEN [self |-> self, IDX |-> -1, threw |-> FALSE]
  ELSE
    LET Same(el) == IF component.t = "string"
                    THEN el # NULL /\ ComponentKey(el) = StringKey(component.s)
                    ELSE el = component.c
        IDX == findIndex([i \in 1..Len(self.children) |-> Same(self.children[i])])
    IN  IF IDX # -1
        THEN [self |-> [self EXCEPT !.children = splice(self.children, IDX)],
              IDX |-> IDX, threw |-> FALSE]
        ELSE [self |-> self, IDX |-> IDX, threw |-> FALSE]

\* removeChild(component): `component` is null/undefined, a string or a
\* Component.  The string branch compares each child's key with
\* `component.key`, the key property of the string itself.
RECURSIVE removeChild(_, _)
removeChild(self, component) ==
  IF component.t = "null" \/ (component.t = "string" /\ component.s = "")
  THEN [self |-> self, IDX |-> -1, threw |-> FALSE]
  ELSE IF component.t = "string"
  THEN LET Same(el) == el # NULL /\ ComponentKey(el) = StringKey(component.s)
           IDX == findIndex([i \in 1..Len(self.children) |-> Same(self.children[i])])
       IN  IF IDX # -1
           THEN [self |-> [self EXCEPT !.children = splice(self.children, IDX)],
                 IDX |-> IDX, threw |-> FALSE]
           ELSE [self |-> self, IDX |-> IDX, threw |-> FALSE]
  ELSE removeChild(self, StringArg(CompKey(component.c)))

\* removeChildren that drops the last child only: this._children.pop().
removeChildrenPop(self) ==
  [self EXCEPT !.children = SubSeq(self.children, 1, Len(self.children) - 1)]

\* removeChildren() { this._children = []; }
removeChildren(self) == [self EXCEPT !.children = <<>>]

\* ----------------------------------------------------------------- actions

\* The record of a call: the method, its argument (of the methods that take
\* a single value), the gate's answer and whether a callback was passed
\* (setState), the code's IDX (addChild, removeChild), and the number of
\* children the call found.
Op(name, arg, gate, cb, IDX) ==
  [name |-> name, arg |-> arg, gate |-> gate, cb |-> cb, IDX |-> IDX,
   len |-> Len(children)]

Commit(self) ==
  /\ key' = self.key
  /\ props' = self.props
  /\ state' = self.state
  /\ children' = self.children

Init ==
  /\ \E k \in NodeKeys, p \in PropsDomain,
        ch \in SeqsUpTo(Comps \cup {NULL}, MaxInitLen) :
       LET self == Constructor(k, p, ch)
       IN  /\ key = self.key
           /\ props = self.props
           /\ state = self.state
           /\ children = self.children
           /\ op = [name |-> "constructor", arg |-> NULL, gate |-> FALSE, cb |-> FALSE,
                    IDX |-> -1, len |-> 0]
  /\ parent = [c \in Comps |-> NoParent]
  /\ calls = <<>>
  /\ supplied = <<>>
  /\ threw = FALSE

ForceUpdate ==
  LET r == forceUpdate(Self)
  IN  /\ Commit(r.self)
      /\ calls' = r.calls
      /\ op' = Op("forceUpdate", NULL, FALSE, FALSE, -1)
      /\ threw' = FALSE
      /\ UNCHANGED <<parent, supplied>>

SetState ==
  \E nextState \in NextStates, gate \in BOOLEAN, cb \in BOOLEAN :
    /\ Len(supplied) < MaxCalls
    /\ LET r == setState(Self, nextState, gate, cb)
       IN  /\ Commit(r.self)
           /\ calls' = r.calls
    /\ op' = Op("setState", nextState, gate, cb, -1)
    /\ supplied' = Append(supplied, nextState)
    /\ threw' = FALSE
    /\ UNCHANGED parent

StateSetter ==
  \E nextState \in NextStates, gate \in BOOLEAN :
    /\ Len(supplied) < MaxCalls
    /\ LET r == stateSetter(Self, nextState, gate)
       IN  /\ Commit(r.self)
           /\ calls' = r.calls
    /\ op' = Op("set state", nextState, gate, FALSE, -1)
    /\ supplied' = Append(supplied, nextState)
    /\ threw' = FALSE
    /\ UNCHANGED parent

\* A setState call one of whose hooks, `at`, calls setState again.  The hook
\* is one the call invokes: the callback when one is passed, another hook
\* when the gate passes.
ReentrantSetState ==
  \E nextState \in NextStates, gate \in BOOLEAN, cb \in BOOLEAN,
     at \in ReentryPoints, inner \in InnerCalls :
    /\ Len(supplied) < MaxCalls
    /\ IF at = "cb" THEN cb ELSE gate
    /\ LET r == setStateReentrant(Self, nextState, gate, cb, at, inner)
       IN  /\ Commit(r.self)
           /\ calls' = r.calls
    /\ op' = Op("setState, re-entered",
                [nextState |-> nextState, at |-> at, inner |-> inner], gate, cb, -1)
    /\ supplied' = supplied \o <<nextState, inner.nextState>>
    /\ threw' = FALSE
    /\ UNCHANGED parent

\* addChild that renders the node again once the child is in place.
AddChildRendering ==
  \E component \in Comps \cup {NULL} :
    LET r == addChild(Self, parent, component)
    IN  /\ Commit(r.self)
        /\ parent' = r.parent
        /\ op' = Op("addChild", component, FALSE, FALSE, r.IDX)
        /\ threw' = r.threw
        /\ calls' = forceUpdate(r.self).calls
        /\ UNCHANGED supplied

AddChild ==
  \E component \in Comps \cup {NULL} :
    LET r == addChild(Self, parent, component)
    IN  /\ Commit(r.self)
        /\ parent' = r.parent
        /\ op' = Op("addChild", component, FALSE, FALSE, r.IDX)
        /\ threw' = r.threw
        /\ calls' = <<>>
        /\ UNCHANGED supplied

AddChildren ==
  \E components \in SeqsUpTo(Comps \cup {NULL}, MaxBatch) :
    LET r == addChildren(Self, parent, components)
    IN  /\ Commit(r.self)
        /\ parent' = r.parent
        /\ op' = Op("addChildren", NULL, FALSE, FALSE, -1)
        /\ threw' = r.threw
        /\ calls' = <<>>
        /\ UNCHANGED supplied

\* addChildren, with the array it was given kept in the record of the call.
AddChildrenRecorded ==
  \E components \in SeqsUpTo(Comps \cup {NULL}, MaxBatch) :
    LET r == addChildren(Self, parent, components)
    IN  /\ Commit(r.self)
        /\ parent' = r.parent
        /\ op' = Op("addChildren", components, FALSE, FALSE, -1)
        /\ threw' = r.threw
        /\ calls' = <<>>
        /\ UNCHANGED supplied

RemoveChild ==
  \E component \in RemoveArgs :
    LET r == removeChild(Self, component)
    IN  /\ Commit(r.self)
        /\ op' = Op("removeChild", component, FALSE, FALSE, r.IDX)
        /\ threw' = r.threw
        /\ calls' = <<>>
        /\ UNCHANGED <<parent, supplied>>

\* removeChildren that also clears the parent of every child it drops.
RemoveChildrenClearingParents ==
  /\ Commit(removeChildren(Self))
  /\ op' = Op("removeChildren", NULL, FALSE, FALSE, -1)
  /\ calls' = <<>>
  /\ threw' = FALSE
  /\ parent' = [c \in Comps |->
                  IF \E i \in 1..Len(children) : children[i] = c THEN NoParent
                  ELSE parent[c]]
  /\ UNCHANGED supplied

RemoveChildren ==
  /\ Commit(removeChildren(Self))
  /\ op' = Op("removeChildren", NULL, FALSE, FALSE, -1)
  /\ calls' = <<>>
  /\ threw' = FALSE
  /\ UNCHANGED <<parent, supplied>>

\* ---------------------------------------------------------- specifications

\* The update protocol: a node constructed with at most one child, then any
\* calls of setState, the state setter and forceUpdate.
InitUpdate == Init /\ Len(children) <= 1
NextUpdate == SetState \/ StateSetter \/ ForceUpdate
SpecUpdate == InitUpdate /\ [][NextUpdate]_vars

\* Child management: a node constructed with the default key and props and
\* any child list, then any calls of addChild, addChildren, removeChild and
\* removeChildren.
InitChildren == Init /\ key = "" /\ props = JSObject(<<>>)
NextChildren == AddChild \/ AddChildren \/ RemoveChild \/ RemoveChildren
SpecChildren == InitChildren /\ [][NextChildren]_vars

\* Re-entrancy: a childless node with the default key and props, then any
\* calls of setState, some of them with a hook that calls setState again.
InitReentrant == Init /\ key = "" /\ props = JSObject(<<>>) /\ children = <<>>
NextReentrant == SetState \/ ReentrantSetState
SpecReentrant == InitReentrant /\ [][NextReentrant]_vars

\* Batches: child management as above, where the array given to addChildren
\* is recorded and addChildren is the last call of a behaviour.
BatchOpen == op.name # "addChildren"
NextBatch ==
  \/ BatchOpen /\ AddChild
  \/ BatchOpen /\ RemoveChild
  \/ BatchOpen /\ RemoveChildren
  \/ BatchOpen /\ AddChildrenRecorded
SpecBatch == InitChildren /\ [][NextBatch]_vars

\* A node's life: a node constructed with a key, props and at most one
\* child, then any calls of the seven methods, where the state is updated at
\* most once and addChildren is called on a node without children.
InitFrame == Init /\ key = "n" /\ props = JSObject([title |-> 1]) /\ Len(children) <= 1
NextFrame ==
  \/ supplied = <<>> /\ SetState
  \/ supplied = <<>> /\ StateSetter
  \/ ForceUpdate
  \/ AddChild
  \/ children = <<>> /\ AddChildren
  \/ RemoveChild
  \/ RemoveChildren
SpecFrame == InitFrame /\ [][NextFrame]_vars

\* ------------------------------------------------------------------ claims

SetStateOps == {"setState", "set state"}
UpdateHooks == {"componentWillUpdate", "render", "componentDidUpdate"}

IsUpdateHook(call) == call.fn \in UpdateHooks
IsRender(call) == call.fn = "render"

\* `result` is the shallow merge of the object `prev` with `partial`: it has
\* the keys of both, with partial's value where partial has the key and
\* prev's value elsewhere.
IsShallowMerge(result, prev, partial) ==
  /\ ~result.absent
  /\ DOMAIN result.map = (DOMAIN prev.map) \cup (DOMAIN partial.map)
  /\ \A k \in DOMAIN result.map :
       result.map[k] = IF k \in DOMAIN partial.map THEN partial.map[k] ELSE prev.map[k]

\* The state updates so far that supplied key k.
Suppliers(k) == {i \in 1..Len(supplied) : k \in DOMAIN supplied[i].map}
Latest(S) == CHOOSE i \in S : \A j \in S : j <= i

\* The indices of `seq` holding a Component whose key is k.
Holders(seq, k) == {i \in 1..Len(seq) : seq[i] # NULL /\ CompKey(seq[i]) = k}

\* C1: after any sequence of state updates on a freshly constructed node,
\* whatever the gate answered, the state is an object (never null or
\* undefined) that holds exactly the keys some update supplied, each with
\* the value of the last update that supplied it.
C1_StateIsMergeOfAllUpdates ==
  /\ ~state.absent
  /\ \A k \in StateKeys :
       IF Suppliers(k) = {} THEN k \notin DOMAIN state.map
       ELSE /\ k \in DOMAIN state.map
            /\ state.map[k] = supplied[Latest(Suppliers(k))].map[k]

\* C1 witness: two updates, the second vetoed by the gate, where the second
\* overrides x and the first alone supplied y.
C1_Witness ==
  /\ Len(supplied) = 2
  /\ op.name = "setState" /\ ~op.gate
  /\ "x" \in DOMAIN supplied[1].map /\ "x" \in DOMAIN supplied[2].map
  /\ supplied[1].map["x"] # supplied[2].map["x"]
  /\ "y" \in DOMAIN supplied[1].map /\ "y" \notin DOMAIN supplied[2].map

\* C2: a setState call whose gate answers false invokes none of
\* componentWillUpdate, render and componentDidUpdate, and leaves the state
\* equal to the shallow merge of the previous state with the partial state.
C2_VetoSkipsHooksButCommits ==
  [][(op'.name \in SetStateOps /\ ~op'.gate) =>
       /\ \A i \in 1..Len(calls') : ~IsUpdateHook(calls'[i])
       /\ IsShallowMerge(state', state, op'.arg)]_vars

\* C2 witness: a vetoed setState after which the state differs from the one
\* the gate was consulted in.
C2_Witness ==
  /\ op.name = "setState" /\ ~op.gate
  /\ Len(calls) >= 1 /\ calls[1].fn = "shouldComponentUpdate"
  /\ calls[1].seen # state

\* C3: a setState call whose gate answers true invokes
\* componentWillUpdate(props, candidate state), render(true) and
\* componentDidUpdate(props, previous state), each once and in that order,
\* within the call; and no setState call invokes render more than once.
C3_HooksOnceInOrder ==
  [][op'.name \in SetStateOps =>
       LET hooks == SelectSeq(calls', IsUpdateHook)
       IN  /\ Len(SelectSeq(calls', IsRender)) <= 1
           /\ op'.gate =>
                /\ Len(hooks) = 3
                /\ hooks[1].fn = "componentWillUpdate"
                /\ Len(hooks[1].args) = 2
                /\ hooks[1].args[1] = props
                /\ IsShallowMerge(hooks[1].args[2], state, op'.arg)
                /\ hooks[2].fn = "render"
                /\ hooks[2].args = <<TRUE>>
                /\ hooks[3].fn = "componentDidUpdate"
                /\ hooks[3].args = <<props, state>>]_vars

\* C3 witness: the second of two setState calls, its gate passed and render
\* was invoked on a state that already held a key.
C3_Witness ==
  /\ op.name = "setState" /\ op.gate
  /\ Len(supplied) = 2
  /\ \E i \in 1..Len(calls) : calls[i].fn = "render" /\ calls[i].seen.map # <<>>

\* C4: no two entries of the children sequence hold Components with the
\* same key.
C4_NoTwoChildrenShareAKey ==
  \A i, j \in 1..Len(children) :
    (i # j /\ children[i] # NULL /\ children[j] # NULL)
      => CompKey(children[i]) # CompKey(children[j])

\* C5: addChild with a Component: when no child has its key it is appended
\* and every child keeps its index; when a child at index i has its key,
\* entry i becomes the Component, the length is unchanged and every other
\* entry keeps its index.
C5_AddChildAppendsOrReplaces ==
  [][(op'.name = "addChild" /\ op'.arg # NULL) =>
       LET c == op'.arg
           hits == Holders(children, CompKey(c))
       IN  IF hits = {}
           THEN /\ Len(children') = Len(children) + 1
                /\ children'[Len(children')] = c
                /\ \A j \in 1..Len(children) : children'[j] = children[j]
           ELSE /\ Len(children') = Len(children)
                /\ \E i \in hits :
                     /\ children'[i] = c
                     /\ \A j \in 1..Len(children) : j # i => children'[j] = children[j]]_vars

\* C5 witness: a node holding two children after addChild replaced the one at
\* position 1 (0-based), as in keys [a, b] plus addChild(key b).
C5_Witness ==
  /\ op.name = "addChild" /\ op.arg # NULL
  /\ op.IDX = 1 /\ op.len = 2
  /\ Len(children) = 2 /\ children[2] = op.arg
  /\ children[1] # NULL /\ CompKey(children[1]) # CompKey(children[2])

\* C6: removeChild with a key string k: when a child has key k, that child
\* leaves the sequence, the length drops by one and the other children keep
\* their relative order; when none has, the sequence is unchanged.
C6_RemoveChildByKey ==
  [][(op'.name = "removeChild" /\ op'.arg.t = "string") =>
       LET hits == Holders(children, op'.arg.s)
       IN  IF hits = {} THEN children' = children
           ELSE \E i \in hits :
                  /\ Len(children') = Len(children) - 1
                  /\ children' = SubSeq(children, 1, i - 1) \o
                                 SubSeq(children, i + 1, Len(children))
                  /\ \A j \in 1..Len(children') : children'[j] # children[i]]_vars

\* C7: removeChild with a Component c changes the children sequence exactly
\* as removeChild with the string c.key does.
C7_RemoveByComponentIsRemoveByItsKey ==
  [][(op'.name = "removeChild" /\ op'.arg.t = "component") =>
       children' = removeChild(Self, StringArg(CompKey(op'.arg.c))).self.children]_vars

\* C7 witness: removeChild was called with a Component that the node holds
\* and whose key is not the empty string.
C7_Witness ==
  /\ op.name = "removeChild" /\ op.arg.t = "component"
  /\ CompKey(op.arg.c) # ""
  /\ \E i \in 1..Len(children) : children[i] = op.arg.c

\* C8: removeChildren leaves the children sequence empty, and an addChild of
\* a Component that follows it leaves that Component alone at index 0.
C8_RemoveChildrenEmpties ==
  [][/\ op'.name = "removeChildren" => children' = <<>>
     /\ (op.name = "removeChildren" /\ op'.name = "addChild" /\ op'.arg # NULL)
          => children' = <<op'.arg>>]_vars

\* C8 witness: removeChildren was called on a node that held two children.
C8_Witness ==
  /\ op.name = "removeChildren" /\ op.len = 2
  /\ children = <<>>

\* C9: every Component held in the children sequence has the node as its
\* parent.
C9_HeldChildrenPointToTheNode ==
  \A i \in 1..Len(children) : children[i] # NULL => parent[children[i]] = This

\* C10: forceUpdate invokes render once, with the forced flag true, invokes
\* neither the gate nor componentWillUpdate nor componentDidUpdate, and leaves
\* state, props, key and children as they were.
C10_ForceUpdateOnlyRenders ==
  [][op'.name = "forceUpdate" =>
       /\ Len(calls') = 1
       /\ calls'[1].fn = "render"
       /\ calls'[1].args = <<TRUE>>
       /\ state' = state /\ props' = props /\ key' = key /\ children' = children]_vars

\* C10 witness: forceUpdate on a node whose state holds a key and that has a
\* child.
C10_Witness ==
  /\ op.name = "forceUpdate"
  /\ state.map # <<>>
  /\ Len(children) = 1
  /\ Len(calls) = 1 /\ calls[1].fn = "render"

IsCallback(call) == call.fn = "cb"

\* C11: a callback passed to setState is invoked once per call, whatever the
\* gate answered, with (the state before the call, the props), as the last
\* thing the call does: after the commit (the node's state read in the
\* callback is the merged state) and after componentDidUpdate when the gate
\* passed.
C11_CallbackOnceAfterCommit ==
  [][(op'.name = "setState" /\ op'.cb) =>
       LET n == Len(calls')
       IN  /\ Len(SelectSeq(calls', IsCallback)) = 1
           /\ calls'[n].fn = "cb"
           /\ calls'[n].args = <<state, props>>
           /\ calls'[n].seen = state'
           /\ IsShallowMerge(calls'[n].seen, state, op'.arg)
           /\ op'.gate => \E i \in 1..(n - 1) : calls'[i].fn = "componentDidUpdate"]_vars

\* C11 witness: a vetoed setState with a callback, whose callback received a
\* previous state that differs from the state it read from the node.
C11_Witness ==
  /\ op.name = "setState" /\ op.cb /\ ~op.gate
  /\ Len(calls) = 2 /\ calls[2].fn = "cb"
  /\ calls[2].args[1] # calls[2].seen

\* C14: in a setState call whose gate passes, shouldComponentUpdate,
\* componentWillUpdate, render and componentDidUpdate all read the previous
\* state from the node; the commit comes after componentDidUpdate and before
\* the callback, which reads the merged state.
C14_CommitBetweenDidUpdateAndCallback ==
  [][(op'.name \in SetStateOps /\ op'.gate) =>
       /\ Len(calls') >= 4
       /\ calls'[1].fn = "shouldComponentUpdate"
       /\ calls'[4].fn = "componentDidUpdate"
       /\ \A i \in 1..Len(calls') :
            IF i <= 4
            THEN calls'[i].fn \in UpdateHooks \cup {"shouldComponentUpdate"}
                 /\ calls'[i].seen = state
            ELSE calls'[i].fn = "cb"
                 /\ calls'[i].seen = state'
                 /\ IsShallowMerge(calls'[i].seen, state, op'.arg)]_vars

\* C14 witness: a setState with a callback whose gate passed and whose
\* componentDidUpdate and callback read different states from the node.
C14_Witness ==
  /\ op.name = "setState" /\ op.gate /\ op.cb
  /\ Len(calls) = 5
  /\ calls[4].fn = "componentDidUpdate" /\ calls[5].fn = "cb"
  /\ calls[4].seen # calls[5].seen

\* C17: assigning through the state setter does what setState(value) without
\* a callback does: the gate is consulted, the hooks and render run when it
\* passes and only then, no callback runs, and the value is shallow-merged
\* into the state, so keys it lacks are retained.
C17_StateSetterIsSetState ==
  [][op'.name = "set state" =>
       LET hooks == SelectSeq(calls', IsUpdateHook)
       IN  /\ IsShallowMerge(state', state, op'.arg)
           /\ \A k \in DOMAIN state.map :
                k \notin DOMAIN op'.arg.map => (k \in DOMAIN state'.map /\ state'.map[k] = state.map[k])
           /\ Len(calls') >= 1
           /\ calls'[1].fn = "shouldComponentUpdate"
           /\ calls'[1].args[1] = props
           /\ IsShallowMerge(calls'[1].args[2], state, op'.arg)
           /\ Len(SelectSeq(calls', IsCallback)) = 0
           /\ Len(calls') = 1 + Len(hooks)
           /\ IF op'.gate
              THEN /\ Len(hooks) = 3
                   /\ hooks[1].fn = "componentWillUpdate"
                   /\ hooks[1].args[1] = props
                   /\ IsShallowMerge(hooks[1].args[2], state, op'.arg)
                   /\ hooks[2].fn = "render" /\ hooks[2].args = <<TRUE>>
                   /\ hooks[3].fn = "componentDidUpdate" /\ hooks[3].args = <<props, state>>
              ELSE Len(hooks) = 0]_vars

\* C17 witness: the setter assigned an object holding x alone to a node whose
\* state held y, and y is still there.
C17_Witness ==
  /\ op.name = "set state" /\ op.gate
  /\ ~op.arg.absent /\ DOMAIN op.arg.map = {"x"}
  /\ DOMAIN state.map = {"x", "y"}
  /\ Len(calls) = 4

\* C12: addChild and removeChild with a null or undefined argument change
\* neither the children nor any parent reference nor the state and raise no
\* exception, and removeChild with a key string that no child has leaves the
\* children unchanged.
C12_AbsentArgumentsAreNoOps ==
  [][/\ ((op'.name = "addChild" /\ op'.arg = NULL) \/
         (op'.name = "removeChild" /\ op'.arg.t = "null"))
          => (children' = children /\ parent' = parent /\ state' = state /\ ~threw')
     /\ (op'.name = "removeChild" /\ op'.arg.t = "string" /\
         Holders(children, op'.arg.s) = {})
          => (children' = children /\ ~threw')]_vars

\* C12 witness: addChild(null) was called on a node that holds a child it
\* is the parent of.
C12_Witness ==
  /\ op.name = "addChild" /\ op.arg = NULL
  /\ \E i \in 1..Len(children) : children[i] # NULL /\ parent[children[i]] = This
  /\ ~threw

\* C18: addChild of a Component assigns its parent in the append branch and
\* assigns no parent reference in the replace branch: the replacement's and
\* the replaced child's parent stay what they were.
C18_ParentSetOnAppendOnly ==
  [][(op'.name = "addChild" /\ op'.arg # NULL) =>
       IF Holders(children, CompKey(op'.arg)) = {}
       THEN /\ parent'[op'.arg] = This
            /\ \A c \in Comps \ {op'.arg} : parent'[c] = parent[c]
       ELSE parent' = parent]_vars

\* C18 witness: addChild replaced a child whose parent is the node by a
\* Component whose parent is still unassigned.
C18_Witness ==
  /\ op.name = "addChild" /\ op.arg # NULL /\ op.IDX >= 0
  /\ children[op.IDX + 1] = op.arg
  /\ parent[op.arg] = NoParent
  /\ \E c \in Comps : c # op.arg /\ CompKey(c) = CompKey(op.arg) /\ parent[c] = This

\* C19: removeChild and removeChildren assign no parent reference.
C19_RemovalKeepsParents ==
  [][op'.name \in {"removeChild", "removeChildren"} => parent' = parent]_vars

\* C19 witness: removeChildren emptied a node that held children, and a
\* Component it is no longer holding still has it as parent.
C19_Witness ==
  /\ op.name = "removeChildren" /\ op.len >= 1
  /\ children = <<>>
  /\ \E c \in Comps : parent[c] = This

\* The node and the parent references after addChild(list[1]), ...,
\* addChild(list[n]), called one after the other.
RECURSIVE AfterAddChildCalls(_, _, _, _)
AfterAddChildCalls(self, par, list, n) ==
  IF n = 0 THEN [self |-> self, parent |-> par]
  ELSE LET before == AfterAddChildCalls(self, par, list, n - 1)
           r == addChild(before.self, before.parent, list[n])
       IN  [self |-> r.self, parent |-> r.parent]

\* C13: addChildren(components) leaves the children and the parent
\* references as the calls addChild(c1), ..., addChild(cn), made in that
\* order, leave them, repeated keys and null entries included.
C13_AddChildrenIsAddChildInOrder ==
  [][op'.name = "addChildren" =>
       LET one == AfterAddChildCalls(Self, parent, op'.arg, Len(op'.arg))
       IN  /\ children' = one.self.children
           /\ parent' = one.parent
           /\ ~threw']_vars

\* C13 witness: addChildren was given, first, two different Components with
\* the same key; the second replaced the first, which alone got the node as
\* parent.
C13_Witness ==
  /\ op.name = "addChildren" /\ op.len = 0
  /\ Len(op.arg) >= 2
  /\ op.arg[1] # NULL /\ op.arg[2] # NULL /\ op.arg[1] # op.arg[2]
  /\ CompKey(op.arg[1]) = CompKey(op.arg[2])
  /\ children = <<op.arg[2]>>
  /\ parent[op.arg[1]] = This /\ parent[op.arg[2]] = NoParent

\* C15: when componentWillUpdate, render or componentDidUpdate of a
\* setState(p1) in progress calls setState(p2) on the node, the state after
\* the outer call is the previous state merged with p1 alone: what p2 alone
\* set is lost.  When the callback makes that call, the state is the
\* previous state merged with p1 and then with p2.
C15_ReentrantUpdateLostUnlessFromCallback ==
  [][op'.name = "setState, re-entered" =>
       LET p1 == op'.arg.nextState
           p2 == op'.arg.inner.nextState
       IN  IF op'.arg.at = "cb"
           THEN \E m \in Maps :
                  /\ IsShallowMerge(JSObject(m), state, p1)
                  /\ IsShallowMerge(state', JSObject(m), p2)
           ELSE IsShallowMerge(state', state, p1)]_vars

\* C15 witness: render of a setState in progress called setState with a
\* value for y, which neither the previous state nor the outer call's
\* nextState holds, and y is not in the state after the outer call.
C15_Witness ==
  /\ op.name = "setState, re-entered" /\ op.arg.at = "render"
  /\ "y" \in DOMAIN op.arg.inner.nextState.map
  /\ "y" \notin DOMAIN op.arg.nextState.map
  /\ "x" \in DOMAIN op.arg.nextState.map
  /\ DOMAIN state.map = {"x"}
  /\ Len(supplied) = 3

ChildOps == {"addChild", "addChildren", "removeChild", "removeChildren"}

\* The number of render invocations among the hook invocations `cs`.
RenderCount(cs) == Cardinality({i \in 1..Len(cs) : IsRender(cs[i])})

\* C16: construction invokes no gate, hook or render; every later call
\* invokes render exactly once when it is a state update whose gate answered
\* true or a forceUpdate, and not at all otherwise, so that over any sequence
\* of operations the renders number the gate-passing state updates plus the
\* forceUpdate calls; addChild, addChildren, removeChild and removeChildren
\* invoke nothing and leave state, props and key as they were; a state
\* update leaves children, props and key as they were.
C16_RendersCountedAndFramesKept ==
  /\ [](op.name = "constructor" => calls = <<>>)
  /\ [][LET rendering == \/ op'.name \in SetStateOps /\ op'.gate
                         \/ op'.name = "forceUpdate"
         IN  /\ RenderCount(calls') = (IF rendering THEN 1 ELSE 0)
             /\ (op'.name \in ChildOps) =>
                   (calls' = <<>> /\ state' = state /\ props' = props /\ key' = key)
             /\ (op'.name \in SetStateOps) =>
                   (children' = children /\ props' = props /\ key' = key)]_vars

\* C16 witness: a Component appended by addChild to a node that has a key,
\* props and, from an earlier update, a state with a property.
C16_Witness ==
  /\ op.name = "addChild" /\ op.arg # NULL /\ op.IDX = -1
  /\ supplied # <<>> /\ state.map # <<>>
  /\ key # "" /\ props.map # <<>>

====
